---- MODULE Spec2Model ----
(***************************************************************************)
(* Rotation feasibility analysis of the eflips book                        *)
(* (60_rotation_validation.ipynb): the notebook queries the rotations of   *)
(* one scenario, computes for each the lowest state of charge reached      *)
(* while driving, collects one summary row per rotation, and plots the     *)
(* share of rotations that fall below zero.                                *)
(*                                                                         *)
(* soc_end is a fraction in the notebook; here it is kept in fixed point,  *)
(* in units of 1e-4 (58 is 0.0058, -100 is -0.01).  Route distances are    *)
(* whole metres, as in the notebook's output.                              *)
(*                                                                         *)
(* Spec is the analysis (cells 5 to 7) on a simulated database, SpecCell4  *)
(* the run from the simulation cell on, SpecConcurrent two invocations of  *)
(* the analysis in one interpreter, SpecReset the statements of            *)
(* clear-database.sql on the tables they name, and SpecResetTwice two runs *)
(* of that script in a row.                                                *)
(***************************************************************************)
EXTENDS Integers, Sequences, FiniteSets, TLC

\* ---------------------------------------------------------------- constants
SCENARIO_ID == 1

\* ------------------------------------------------------------------- bounds
\* Rows of the Rotation table and rows of the Trip table (all rotations).
MaxRotations == 2
MaxTrips == 2

ScenarioIds == {1, 2}
SocValues == {-100, 0, 58}
ChargingSocValues == {-200}

\* Python's None (what Query.first() returns on an empty result).
None == [is_none |-> TRUE]

\* ------------------------------------------------- externally owned tables
\* Station and Route rows (fixed sample of the imported schedule).
StationTable ==
    [s \in {1, 2} |->
        IF s = 1 THEN [name |-> "Betriebshof Spandau"]
                 ELSE [name |-> "S Lichtenrade"]]

RouteTable ==
    [r \in {1, 2} |->
        IF r = 1 THEN [distance |-> 7, departure_station |-> 1]
                 ELSE [distance |-> 12, departure_station |-> 2]]

\* Event rows that can hang on a trip: driving events, and events of another
\* type with a soc_end below every driving one.
EventRows ==
    [event_type : {"DRIVING"}, soc_end : SocValues]
        \cup [event_type : {"CHARGING_OPPORTUNITY"}, soc_end : ChargingSocValues]

\* The events of one trip: none before the simulation has run, else the one
\* event the simulation writes for the trip.
TripEventSets == {{}} \cup {{e} : e \in EventRows}

\* The sum of the first n entries of a sequence of numbers.
RECURSIVE SumFirst(_, _)
SumFirst(seq, n) == IF n = 0 THEN 0 ELSE SumFirst(seq, n - 1) + seq[n]

\* How MaxTrips or fewer Trip rows can be spread over n rotations.
TripCounts(n) == {cnt \in [1..n -> 0..MaxTrips] : SumFirst(cnt, n) <= MaxTrips}

\* Departure times of the trips of all rotations, rotation after rotation:
\* the trips of one rotation depart at different times (one vehicle drives
\* them one after the other), here the times 1..number of its trips.
DepartureTimes(n, cnt) ==
    {dep \in [1..SumFirst(cnt, n) -> 1..MaxTrips] :
        \A k \in 1..n :
            {dep[SumFirst(cnt, k - 1) + j] : j \in 1..cnt[k]} = 1..cnt[k]}

\* The Rotation table in the order an unordered query returns it (a row's
\* position is its id), each row with rotation.trips in list order.
RotationTable(n, scenario, cnt, route, dep, events) ==
    [k \in 1..n |->
        [scenario_id |-> scenario[k],
         trips |-> [j \in 1..cnt[k] |->
                        LET t == SumFirst(cnt, k - 1) + j
                        IN  [route |-> route[t],
                             departure_time |-> dep[t],
                             events |-> events[t]]]]]

VARIABLES
    rotations,      \* the database: Rotation rows with their trips and events
    pc,             \* the cell (or loop position) the notebook is at
    all_rotations,  \* ids of the rotations the query of cell 5 returns
    idx,            \* position of the for loop in all_rotations
    result_data,    \* the list of summary dicts
    df,             \* the DataFrame of cell 6
    counts,         \* df["soc_below_zero"].value_counts() of cell 7
    pie,            \* the wedges ax.pie draws
    error,          \* the exception that ended the run, if any
    session,        \* the SQLAlchemy session of cell 3
    simulation,     \* what run_simba_scenario of cell 4 has done
    threads,        \* concurrent invocations: each one's own position and iterator
    namespace,      \* concurrent invocations: the module-level names they share
    db,             \* reset script: the tables it runs on
    db_before,      \* reset script: the tables as they were before it ran
    stmt,           \* reset script: the line of the statement to run next
    triggers,       \* reset script: per table, whether its triggers are enabled
    first_run       \* reset script: tables and triggers as its first run left them

concurrentVars == <<threads, namespace>>
resetVars == <<db, db_before, stmt, triggers, first_run>>
vars == <<rotations, pc, all_rotations, idx, result_data, df, counts, pie, error,
          session, simulation, threads, namespace, db, db_before, stmt, triggers, first_run>>

\* ------------------------------------------------------------ cell 5: query
\* The rotation query without its scenario filter.
RotationQueryAllScenarios(table, scenario) == [k \in 1..Len(table) |-> k]

\* session.query(Rotation).filter(Rotation.scenario_id == SCENARIO_ID):
\* the ids of the matching rows, in table order.
RotationQuery(table, scenario) ==
    SelectSeq([k \in 1..Len(table) |-> k], LAMBDA k : table[k].scenario_id = scenario)

\* session.query(Event).join(Trip).join(Rotation): one row per event that
\* hangs on a trip of a rotation.
EventJoinTripJoinRotation(table) ==
    UNION {UNION {{[rotation_id |-> r, trip |-> t,
                    event_type |-> e.event_type, soc_end |-> e.soc_end]
                   : e \in table[r].trips[t].events}
                  : t \in 1..Len(table[r].trips)}
           : r \in 1..Len(table)}

\* The event query without its rotation filter.
FilterRotationIdDropped(rows, id) == rows

\* .filter(Rotation.id == rotation.id)
FilterRotationId(rows, id) == {row \in rows : row.rotation_id = id}

\* The event query without its event type filter.
FilterDrivingDropped(rows) == rows

\* .filter(Event.event_type == EventType.DRIVING)
FilterDriving(rows) == {row \in rows : row.event_type = "DRIVING"}

\* .order_by(Event.soc_end): ascending; rows with equal soc_end in any order.
RECURSIVE OrderBySocEnd(_)
OrderBySocEnd(rows) ==
    IF rows = {} THEN <<>>
    ELSE LET lowest == CHOOSE row \in rows : \A other \in rows : row.soc_end <= other.soc_end
         IN  <<lowest>> \o OrderBySocEnd(rows \ {lowest})

\* first() that answers an empty result with a default row of soc_end 0.
FirstOrDefault(seq) ==
    IF seq = <<>> THEN [rotation_id |-> 0, trip |-> 0, event_type |-> "DRIVING", soc_end |-> 0]
    ELSE seq[1]

\* .first(): the first row, or None when the query returns nothing.
First(seq) == IF seq = <<>> THEN None ELSE seq[1]

\* A sum that counts every route once, however many trips run on it.
SumDistinctRouteDistance(trips) ==
    LET used == {trips[k].route : k \in DOMAIN trips}
    IN  (IF 1 \in used THEN RouteTable[1].distance ELSE 0)
            + (IF 2 \in used THEN RouteTable[2].distance ELSE 0)

\* sum(t.route.distance for t in rotation.trips): left to right, from 0.
RECURSIVE SumRouteDistance(_)
SumRouteDistance(trips) ==
    IF trips = <<>> THEN 0
    ELSE SumRouteDistance(SubSeq(trips, 1, Len(trips) - 1))
            + RouteTable[trips[Len(trips)].route].distance

\* The comparison with the boundary on the wrong side.
SocAtOrBelowZero(lowest_soc) == lowest_soc <= 0

\* lowest_soc_for_rotation < 0
SocBelowZero(lowest_soc) == lowest_soc < 0

\* rotation.trips[0].route.departure_station.name
OriginatingDepotName(trips) == StationTable[RouteTable[trips[1].route].departure_station].name

\* ------------------------------------------------- cells 6 and 7: summarise
\* pd.DataFrame(result_data): the columns are the keys of the dicts, so an
\* empty list gives a frame without columns.
DataFrame(data) ==
    [columns |-> IF data = <<>> THEN {}
                 ELSE {"originating_depot_name", "total_distance",
                       "minimum_soc", "soc_below_zero"},
     rows |-> data]

\* Series.value_counts(): one entry per value that occurs, the most frequent
\* first; the order of equally frequent values is not specified.
ValueCounts(column) ==
    LET count(v) == Cardinality({k \in DOMAIN column : column[k] = v})
        entries == {[value |-> v, count |-> count(v)] : v \in {column[k] : k \in DOMAIN column}}
        n == Cardinality(entries)
    IN  {s \in [1..n -> entries] :
            /\ \A a, b \in 1..n : a # b => s[a] # s[b]
            /\ \A a, b \in 1..n : a < b => s[a].count >= s[b].count}

PieLabels == <<"Success", "Failure">>

\* ax.pie(x, labels=...): wedge k has size x[k] and label labels[k].
PieWedges(x, labels) == [k \in 1..Len(x) |-> [label |-> labels[k], size |-> x[k].count]]

\* ---------------------------------------------------------------- the run
\* The cells run top to bottom; an exception in a cell ends the run there.
\* ------------------------------------------------------------ the session
\* session = Session(engine), cell 3: open, nothing pending, nothing loaded.
\* entities is the state of the rows the session has loaded (its identity
\* map); a loaded entity that is not expired is not read again.
NewSession == [open |-> TRUE, pending |-> FALSE, loaded |-> FALSE, entities |-> <<>>]

\* session.commit(): writes the pending changes to the database.
Commit(s) == [s EXCEPT !.pending = FALSE]

\* An expire_all() that leaves the loaded entities as they are.
ExpireNothing(s) == s

\* session.expire_all(): every loaded entity is read again on next access.
ExpireAll(s) == [s EXCEPT !.loaded = FALSE, !.entities = <<>>]

\* What a query through the session sees of a table.
Read(s, table) == IF s.loaded THEN s.entities ELSE table

\* The session after a query has loaded the table.
Load(s, table) == IF s.loaded THEN s ELSE [s EXCEPT !.loaded = TRUE, !.entities = table]

\* The state of the variables that belong to the concurrent invocations and
\* to the reset script while neither runs.
NoConcurrentRun == threads = <<>> /\ namespace = <<>>
NotRunBefore == [done |-> FALSE, db |-> <<>>, triggers |-> <<>>]
NoResetRun ==
    db = <<>> /\ db_before = <<>> /\ stmt = 0 /\ triggers = <<>> /\ first_run = NotRunBefore

Init ==
    /\ \E n \in 0..MaxRotations :
       \E cnt \in TripCounts(n) :
       \E dep \in DepartureTimes(n, cnt) :
       \E scenario \in [1..n -> ScenarioIds] :
       \E route \in [1..SumFirst(cnt, n) -> DOMAIN RouteTable] :
       \E events \in [1..SumFirst(cnt, n) -> TripEventSets] :
           rotations = RotationTable(n, scenario, cnt, route, dep, events)
    /\ pc = "cell5"
    /\ all_rotations = <<>>
    /\ idx = 1
    /\ result_data = <<>>
    /\ df = None
    /\ counts = <<>>
    /\ pie = <<>>
    /\ error = "none"
    /\ session = NewSession
    /\ simulation = "on_committed_data"
    /\ NoConcurrentRun
    /\ NoResetRun

\* A rotation query that also removes the trips of the other scenarios'
\* rotations from the database.
Cell5QueryWriting ==
    /\ pc = "cell5"
    /\ result_data' = <<>>
    /\ all_rotations' = RotationQuery(Read(session, rotations), SCENARIO_ID)
    /\ session' = Load(session, rotations)
    /\ rotations' = [k \in 1..Len(rotations) |->
                        IF rotations[k].scenario_id = SCENARIO_ID THEN rotations[k]
                        ELSE [rotations[k] EXCEPT !.trips = <<>>]]
    /\ idx' = 1
    /\ pc' = IF all_rotations' = <<>> THEN "cell6" ELSE "loop"
    /\ UNCHANGED <<df, counts, pie, error, simulation, concurrentVars, resetVars>>

\* Cell 5, lines 131-132: reset result_data and run the rotation query.
Cell5Query ==
    /\ pc = "cell5"
    /\ result_data' = <<>>
    /\ all_rotations' = RotationQuery(Read(session, rotations), SCENARIO_ID)
    /\ session' = Load(session, rotations)
    /\ idx' = 1
    /\ pc' = IF all_rotations' = <<>> THEN "cell6" ELSE "loop"
    /\ UNCHANGED <<rotations, df, counts, pie, error, simulation, concurrentVars, resetVars>>

\* A pass of the for loop that skips a rotation without driving events
\* instead of raising.
Cell5IterateSkipping ==
    /\ pc = "loop"
    /\ idx <= Len(all_rotations)
    /\ LET id == all_rotations[idx]
           rotation == Read(session, rotations)[id]
           first == First(OrderBySocEnd(FilterDriving(
                        FilterRotationId(EventJoinTripJoinRotation(Read(session, rotations)), id))))
       IN  /\ result_data' =
                 IF first = None \/ rotation.trips = <<>> THEN result_data
                 ELSE Append(result_data,
                        [originating_depot_name |-> OriginatingDepotName(rotation.trips),
                         total_distance |-> SumRouteDistance(rotation.trips),
                         minimum_soc |-> first.soc_end,
                         soc_below_zero |-> SocBelowZero(first.soc_end)])
           /\ idx' = idx + 1
           /\ pc' = IF idx = Len(all_rotations) THEN "cell6" ELSE "loop"
           /\ UNCHANGED error
    /\ UNCHANGED <<rotations, all_rotations, df, counts, pie, session, simulation,
                   concurrentVars, resetVars>>

\* Cell 5, lines 133-152: one pass of the for loop.
Cell5Iterate ==
    /\ pc = "loop"
    /\ idx <= Len(all_rotations)
    /\ LET id == all_rotations[idx]
           rotation == Read(session, rotations)[id]
           first == First(OrderBySocEnd(FilterDriving(
                        FilterRotationId(EventJoinTripJoinRotation(Read(session, rotations)), id))))
       IN  IF first = None
           THEN \* None.soc_end
                /\ error' = "AttributeError"
                /\ pc' = "failed"
                /\ UNCHANGED <<result_data, idx>>
           ELSE IF rotation.trips = <<>>
           THEN \* rotation.trips[0] on an empty list
                /\ error' = "IndexError"
                /\ pc' = "failed"
                /\ UNCHANGED <<result_data, idx>>
           ELSE /\ result_data' = Append(result_data,
                        [originating_depot_name |-> OriginatingDepotName(rotation.trips),
                         total_distance |-> SumRouteDistance(rotation.trips),
                         minimum_soc |-> first.soc_end,
                         soc_below_zero |-> SocBelowZero(first.soc_end)])
                /\ idx' = idx + 1
                /\ pc' = IF idx = Len(all_rotations) THEN "cell6" ELSE "loop"
                /\ UNCHANGED error
    /\ UNCHANGED <<rotations, all_rotations, df, counts, pie, session, simulation,
                   concurrentVars, resetVars>>

\* Cell 6: df = pd.DataFrame(result_data).
Cell6DataFrame ==
    /\ pc = "cell6"
    /\ df' = DataFrame(result_data)
    /\ pc' = "cell7"
    /\ UNCHANGED <<rotations, all_rotations, idx, result_data, counts, pie, error,
                   session, simulation, concurrentVars, resetVars>>

\* Cell 7: the pie chart of df["soc_below_zero"].value_counts().
Cell7PieChart ==
    /\ pc = "cell7"
    /\ IF "soc_below_zero" \notin df.columns
       THEN \* df["soc_below_zero"] on a frame without that column
            /\ error' = "KeyError"
            /\ pc' = "failed"
            /\ UNCHANGED <<counts, pie>>
       ELSE \E vc \in ValueCounts([k \in 1..Len(df.rows) |-> df.rows[k].soc_below_zero]) :
            /\ counts' = vc
            /\ IF Len(vc) # Len(PieLabels)
               THEN \* ax.pie: 'label' must be of length 'x'
                    /\ error' = "ValueError"
                    /\ pc' = "failed"
                    /\ UNCHANGED pie
               ELSE /\ pie' = PieWedges(vc, PieLabels)
                    /\ pc' = "done"
                    /\ UNCHANGED error
    /\ UNCHANGED <<rotations, all_rotations, idx, result_data, df,
                   session, simulation, concurrentVars, resetVars>>

Next ==
    \/ Cell5Query
    \/ Cell5Iterate
    \/ Cell6DataFrame
    \/ Cell7PieChart

Spec == Init /\ [][Next]_vars

\* ------------------------------------------------- cell 4: the simulation
\* The events of a trip before run_simba_scenario is called: none, or the
\* event an earlier simulation left.
PreSimEventSets == {{}, {[event_type |-> "DRIVING", soc_end |-> 58]}}

\* The events run_simba_scenario writes for one trip: none, or a driving event.
SimEventSets == {{}} \cup {{[event_type |-> "DRIVING", soc_end |-> soc]} : soc \in SocValues}

\* The number of Trip rows of the rotations before rotation k.
RECURSIVE TripOffset(_, _)
TripOffset(table, k) ==
    IF k <= 1 THEN 0 ELSE TripOffset(table, k - 1) + Len(table[k - 1].trips)

\* run_simba_scenario(scenario): the events of the trips of the scenario's
\* rotations are replaced by the simulated ones (ev, by Trip row).
SimbaWrites(table, scenario, ev) ==
    [k \in 1..Len(table) |->
        IF table[k].scenario_id # scenario THEN table[k]
        ELSE [table[k] EXCEPT !.trips =
                 [j \in 1..Len(table[k].trips) |->
                     [table[k].trips[j] EXCEPT !.events = ev[TripOffset(table, k) + j]]]]]

\* The notebook before cell 4: the schedule is imported, the session of cell 3
\* may hold changes that are not committed and entities it has loaded.
InitCell4 ==
    /\ \E n \in 0..MaxRotations :
       \E cnt \in TripCounts(n) :
       \E dep \in DepartureTimes(n, cnt) :
       \E scenario \in [1..n -> ScenarioIds] :
       \E route \in [1..SumFirst(cnt, n) -> DOMAIN RouteTable] :
       \E old \in PreSimEventSets :
           rotations = RotationTable(n, scenario, cnt, route, dep,
                                     [t \in 1..SumFirst(cnt, n) |-> old])
    /\ \E pending \in BOOLEAN, loaded \in BOOLEAN :
           session = [open |-> TRUE, pending |-> pending, loaded |-> loaded,
                      entities |-> IF loaded THEN rotations ELSE <<>>]
    /\ pc = "cell4"
    /\ simulation = "not_run"
    /\ all_rotations = <<>>
    /\ idx = 1
    /\ result_data = <<>>
    /\ df = None
    /\ counts = <<>>
    /\ pie = <<>>
    /\ error = "none"
    /\ NoConcurrentRun
    /\ NoResetRun

\* Cell 4, line 106: session.commit() before the simulation.
Cell4Commit ==
    /\ pc = "cell4"
    /\ session' = Commit(session)
    /\ pc' = "cell4_simba"
    /\ UNCHANGED <<rotations, all_rotations, idx, result_data, df, counts, pie, error,
                   simulation, concurrentVars, resetVars>>

\* Cell 4, lines 107-109: the simulation reads the committed schedule and
\* writes its events through a connection of its own.
Cell4RunSimba ==
    /\ pc = "cell4_simba"
    /\ \E ev \in [1..TripOffset(rotations, Len(rotations) + 1) -> SimEventSets] :
           rotations' = SimbaWrites(rotations, SCENARIO_ID, ev)
    /\ simulation' = IF session.pending THEN "without_pending_changes"
                                        ELSE "on_committed_data"
    /\ pc' = "cell4_commit"
    /\ UNCHANGED <<all_rotations, idx, result_data, df, counts, pie, error,
                   session, concurrentVars, resetVars>>

\* Cell 4, line 110: session.commit() after the simulation.
Cell4CommitAgain ==
    /\ pc = "cell4_commit"
    /\ session' = Commit(session)
    /\ pc' = "cell4_expire"
    /\ UNCHANGED <<rotations, all_rotations, idx, result_data, df, counts, pie, error,
                   simulation, concurrentVars, resetVars>>

\* Cell 4, line 111: session.expire_all().
Cell4ExpireAll ==
    /\ pc = "cell4_expire"
    /\ session' = ExpireAll(session)
    /\ pc' = "cell5"
    /\ UNCHANGED <<rotations, all_rotations, idx, result_data, df, counts, pie, error,
                   simulation, concurrentVars, resetVars>>

NextCell4 ==
    \/ Cell4Commit
    \/ Cell4RunSimba
    \/ Cell4CommitAgain
    \/ Cell4ExpireAll
    \/ Cell5Query
    \/ Cell5Iterate
    \/ Cell6DataFrame
    \/ Cell7PieChart

SpecCell4 == InitCell4 /\ [][NextCell4]_vars

\* ------------------------------------------- two invocations in one kernel
\* Two invocations of the analysis, for different scenarios, that run in the
\* same interpreter: SCENARIO_ID, all_rotations, rotation and result_data are
\* names of the one module namespace; an invocation has of its own only its
\* position in the code and the iterator of its for loop.
Invocations == {1, 2}

\* The body of the for loop for one rotation (lines 134-152): the record it
\* appends, or None when it raises.
RotationSummary(table, id) ==
    LET first == First(OrderBySocEnd(FilterDriving(
                     FilterRotationId(EventJoinTripJoinRotation(table), id))))
    IN  IF first = None \/ table[id].trips = <<>> THEN None
        ELSE [originating_depot_name |-> OriginatingDepotName(table[id].trips),
              total_distance |-> SumRouteDistance(table[id].trips),
              minimum_soc |-> first.soc_end,
              soc_below_zero |-> SocBelowZero(first.soc_end)]

InitConcurrent ==
    /\ \E n \in 0..MaxRotations :
       \E cnt \in TripCounts(n) :
       \E dep \in DepartureTimes(n, cnt) :
       \E scenario \in [1..n -> ScenarioIds] :
       \E route \in [1..SumFirst(cnt, n) -> DOMAIN RouteTable] :
       \E events \in [1..SumFirst(cnt, n) -> SimEventSets] :
           rotations = RotationTable(n, scenario, cnt, route, dep, events)
    /\ threads = [t \in Invocations |->
                     [pc |-> "cell2", scenario |-> t, it |-> <<>>, pos |-> 1,
                      out |-> [error |-> "none", records |-> <<>>]]]
    /\ namespace = [scenario_id |-> SCENARIO_ID, all_rotations |-> <<>>,
                    rotation |-> 0, result_data |-> <<>>]
    /\ session = NewSession
    /\ simulation = "on_committed_data"
    /\ pc = "concurrent"
    /\ all_rotations = <<>>
    /\ idx = 1
    /\ result_data = <<>>
    /\ df = None
    /\ counts = <<>>
    /\ pie = <<>>
    /\ error = "none"
    /\ NoResetRun

notebookVars == <<rotations, pc, all_rotations, idx, result_data, df, counts, pie, error,
                  session, simulation>>

\* Cell 2, line 47: SCENARIO_ID = <the scenario of the invocation>.
SetScenarioId(t) ==
    /\ threads[t].pc = "cell2"
    /\ namespace' = [namespace EXCEPT !.scenario_id = threads[t].scenario]
    /\ threads' = [threads EXCEPT ![t].pc = "cell5_reset"]
    /\ UNCHANGED <<notebookVars, resetVars>>

\* Cell 5, line 131: result_data = [].
ResetResultData(t) ==
    /\ threads[t].pc = "cell5_reset"
    /\ namespace' = [namespace EXCEPT !.result_data = <<>>]
    /\ threads' = [threads EXCEPT ![t].pc = "cell5_query"]
    /\ UNCHANGED <<notebookVars, resetVars>>

\* Cell 5, line 132: all_rotations = the rotations of SCENARIO_ID.
QueryRotations(t) ==
    /\ threads[t].pc = "cell5_query"
    /\ namespace' = [namespace EXCEPT
                        !.all_rotations = RotationQuery(rotations, namespace.scenario_id)]
    /\ threads' = [threads EXCEPT ![t].pc = "cell5_for"]
    /\ UNCHANGED <<notebookVars, resetVars>>

\* Cell 5, line 133: the for statement takes an iterator of all_rotations.
StartLoop(t) ==
    /\ threads[t].pc = "cell5_for"
    /\ threads' = [threads EXCEPT ![t].it = namespace.all_rotations,
                                  ![t].pos = 1,
                                  ![t].pc = "cell5_next"]
    /\ UNCHANGED <<namespace, notebookVars, resetVars>>

\* Cell 5, line 133: the loop binds rotation to the next item, or ends.
NextRotation(t) ==
    /\ threads[t].pc = "cell5_next"
    /\ IF threads[t].pos > Len(threads[t].it)
       THEN /\ threads' = [threads EXCEPT ![t].pc = "cell6"]
            /\ UNCHANGED namespace
       ELSE /\ namespace' = [namespace EXCEPT !.rotation = threads[t].it[threads[t].pos]]
            /\ threads' = [threads EXCEPT ![t].pos = @ + 1, ![t].pc = "cell5_body"]
    /\ UNCHANGED <<notebookVars, resetVars>>

\* Cell 5, lines 134-152: the loop body, for the rotation the name is bound to.
LoopBody(t) ==
    /\ threads[t].pc = "cell5_body"
    /\ LET record == RotationSummary(rotations, namespace.rotation)
       IN  IF record = None
           THEN /\ threads' = [threads EXCEPT
                                  ![t].pc = "failed",
                                  ![t].out = [error |-> "AttributeError", records |-> <<>>]]
                /\ UNCHANGED namespace
           ELSE /\ namespace' = [namespace EXCEPT !.result_data = Append(@, record)]
                /\ threads' = [threads EXCEPT ![t].pc = "cell5_next"]
    /\ UNCHANGED <<notebookVars, resetVars>>

\* Cell 6, line 307: df = pd.DataFrame(result_data), the summaries the
\* invocation yields.
BuildDataFrame(t) ==
    /\ threads[t].pc = "cell6"
    /\ threads' = [threads EXCEPT
                      ![t].pc = "done",
                      ![t].out = [error |-> "none", records |-> namespace.result_data]]
    /\ UNCHANGED <<namespace, notebookVars, resetVars>>

NextConcurrent ==
    \/ \E t \in Invocations : SetScenarioId(t)
    \/ \E t \in Invocations : ResetResultData(t)
    \/ \E t \in Invocations : QueryRotations(t)
    \/ \E t \in Invocations : StartLoop(t)
    \/ \E t \in Invocations : NextRotation(t)
    \/ \E t \in Invocations : LoopBody(t)
    \/ \E t \in Invocations : BuildDataFrame(t)

SpecConcurrent == InitConcurrent /\ [][NextConcurrent]_vars

\* ------------------------------------------- clear-database.sql, the tables
\* The scenario whose schedule the script keeps (WHERE scenario_id != 1).
KeptScenario == 1

\* vehicle_id = NULL.
NULL == 0

\* The tables the script names, and one it does not name.
ScriptTables ==
    {"Rotation", "Event", "Vehicle", "AssocRouteStation", "StopTime", "Trip", "Route",
     "Line", "Station", "Area", "AssocPlanProcess", "Depot"}
UnnamedTables == {"Scenario"}
TableNames == ScriptTables \cup UnnamedTables

\* The tables whose triggers the script switches.
TriggerTables == {"Station", "StopTime"}

\* The references between the tables, <<referencing table, referenced table>>.
ForeignKeys ==
    {<<"Rotation", "Vehicle">>, <<"Event", "Vehicle">>, <<"Event", "Trip">>,
     <<"StopTime", "Trip">>, <<"StopTime", "Station">>,
     <<"Trip", "Route">>, <<"Trip", "Rotation">>,
     <<"AssocRouteStation", "Route">>, <<"AssocRouteStation", "Station">>,
     <<"Route", "Station">>, <<"Route", "Line">>, <<"Area", "Depot">>}

\* Rotation.vehicle_id may be NULL; the other references are mandatory.
MandatoryKeys == ForeignKeys \ {<<"Rotation", "Vehicle">>}

\* Row c of table child references row r of table parent: rows reference rows
\* of their own scenario (a table holds one row per scenario here, and the id
\* of a Vehicle row is its scenario), a rotation the vehicle it names.
Refers(child, c, parent, r) ==
    /\ <<child, parent>> \in ForeignKeys
    /\ IF child = "Rotation" THEN c.vehicle_id = r.scenario_id
                             ELSE c.scenario_id = r.scenario_id

\* The rows of d that reference row r of table parent.
ReferencingRows(d, parent, r) ==
    {cr \in UNION {{<<child, c>> : c \in d[child]} : child \in TableNames} :
        Refers(cr[1], cr[2], parent, r)}

\* The sets of tables in which one scenario can have a row: a row needs the
\* rows it references.
ConsistentTableSets ==
    {S \in SUBSET (ScriptTables \ {"AssocPlanProcess"}) :
        \A fk \in MandatoryKeys : fk[1] \in S => fk[2] \in S}

\* The row of a scenario in a table (with is whether its rotation has a vehicle).
Row(table, scenario, with) ==
    IF table = "Rotation"
    THEN [scenario_id |-> scenario, vehicle_id |-> IF with THEN scenario ELSE NULL]
    ELSE [scenario_id |-> scenario]

\* The database in which scenario s has rows in the tables has[s].
Database(has, with) ==
    [table \in TableNames |->
        IF table \in {"Scenario", "AssocPlanProcess"}
        THEN {Row(table, sc, FALSE) : sc \in ScenarioIds}
        ELSE {Row(table, sc, with[sc]) : sc \in {x \in ScenarioIds : table \in has[x]}}]

\* ---------------------------------------- clear-database.sql, the statements
\* A WHERE clause that selects no row.
NoRows(rows) == {}

\* A DELETE without the WHERE clause.
EveryRow(rows) == rows

\* WHERE scenario_id = (the highest scenario_id of the table)
LatestScenarioRows(rows) == {r \in rows : \A q \in rows : q.scenario_id <= r.scenario_id}

\* WHERE scenario_id != 1
OtherScenarioRows(rows) == {r \in rows : r.scenario_id # KeptScenario}

\* UPDATE "Rotation" SET vehicle_id = NULL
SetVehicleIdNull(rows) == {[r EXCEPT !.vehicle_id = NULL] : r \in rows}

\* DELETE FROM table: the rows victims go, unless the triggers of the table
\* are enabled and a row that stays references one of them; then the
\* statement fails and the script ends there.
Delete(line, table, victims) ==
    /\ stmt = line
    /\ error = "none"
    /\ LET after == [db EXCEPT ![table] = @ \ victims]
       IN  IF /\ (table \in TriggerTables => triggers[table])
              /\ \E r \in victims : ReferencingRows(after, table, r) # {}
           THEN /\ error' = "ForeignKeyViolation"
                /\ UNCHANGED <<db, stmt>>
           ELSE /\ db' = after
                /\ stmt' = line + 1
                /\ UNCHANGED error
    /\ UNCHANGED <<rotations, pc, all_rotations, idx, result_data, df, counts, pie,
                   session, simulation, concurrentVars, db_before, triggers, first_run>>

\* ALTER TABLE table DISABLE / ENABLE TRIGGER ALL
AlterTrigger(line, table, enabled) ==
    /\ stmt = line
    /\ error = "none"
    /\ triggers' = [triggers EXCEPT ![table] = enabled]
    /\ stmt' = line + 1
    /\ UNCHANGED <<rotations, pc, all_rotations, idx, result_data, df, counts, pie, error,
                   session, simulation, concurrentVars, db, db_before, first_run>>

InitReset ==
    /\ \E has \in [ScenarioIds -> ConsistentTableSets] :
       \E with \in [ScenarioIds -> BOOLEAN] :
           /\ \A sc \in ScenarioIds : with[sc] => {"Rotation", "Vehicle"} \subseteq has[sc]
           /\ db = Database(has, with)
    /\ db_before = db
    /\ stmt = 1
    /\ triggers = [table \in TriggerTables |-> TRUE]
    /\ first_run = NotRunBefore
    /\ error = "none"
    /\ rotations = <<>>
    /\ pc = "reset"
    /\ all_rotations = <<>>
    /\ idx = 1
    /\ result_data = <<>>
    /\ df = None
    /\ counts = <<>>
    /\ pie = <<>>
    /\ session = NewSession
    /\ simulation = "not_run"
    /\ NoConcurrentRun

\* A line 1 that updates nothing.
Line1NoUpdate ==
    /\ stmt = 1
    /\ error = "none"
    /\ stmt' = 2
    /\ UNCHANGED <<rotations, pc, all_rotations, idx, result_data, df, counts, pie, error,
                   session, simulation, concurrentVars, db, db_before, triggers, first_run>>

Line1 ==
    /\ stmt = 1
    /\ error = "none"
    /\ db' = [db EXCEPT !["Rotation"] = SetVehicleIdNull(@)]
    /\ stmt' = 2
    /\ UNCHANGED <<rotations, pc, all_rotations, idx, result_data, df, counts, pie, error,
                   session, simulation, concurrentVars, db_before, triggers, first_run>>

Line2 == Delete(2, "Event", db["Event"])
Line3 == Delete(3, "Vehicle", db["Vehicle"])
Line4 == Delete(4, "AssocRouteStation", OtherScenarioRows(db["AssocRouteStation"]))
Line5 == Delete(5, "StopTime", OtherScenarioRows(db["StopTime"]))
Line6 == Delete(6, "Trip", OtherScenarioRows(db["Trip"]))
Line7 == Delete(7, "Route", OtherScenarioRows(db["Route"]))
Line8 == Delete(8, "Line", OtherScenarioRows(db["Line"]))
Line9 == AlterTrigger(9, "Station", FALSE)
Line10 == AlterTrigger(10, "StopTime", FALSE)
Line11 == Delete(11, "Station", OtherScenarioRows(db["Station"]))
Line12 == AlterTrigger(12, "Station", TRUE)
Line13 == AlterTrigger(13, "StopTime", TRUE)
Line14 == Delete(14, "Rotation", OtherScenarioRows(db["Rotation"]))
Line15 == Delete(15, "Area", OtherScenarioRows(db["Area"]))
Line16 == Delete(16, "AssocRouteStation", OtherScenarioRows(db["AssocRouteStation"]))
Line17 == Delete(17, "AssocPlanProcess", OtherScenarioRows(db["AssocPlanProcess"]))
Line18 == Delete(18, "Depot", OtherScenarioRows(db["Depot"]))

NextReset ==
    \/ Line1
    \/ Line2
    \/ Line3
    \/ Line4
    \/ Line5
    \/ Line6
    \/ Line7
    \/ Line8
    \/ Line9
    \/ Line10
    \/ Line11
    \/ Line12
    \/ Line13
    \/ Line14
    \/ Line15
    \/ Line16
    \/ Line17
    \/ Line18

SpecReset == InitReset /\ [][NextReset]_vars

\* ------------------------------------- clear-database.sql, run twice in a row
\* The state before the first of two runs: any of the database states above,
\* the triggers of Station and StopTime enabled or disabled.
InitResetTwice ==
    /\ \E has \in [ScenarioIds -> ConsistentTableSets] :
       \E with \in [ScenarioIds -> BOOLEAN] :
           /\ \A sc \in ScenarioIds : with[sc] => {"Rotation", "Vehicle"} \subseteq has[sc]
           /\ db = Database(has, with)
    /\ db_before = db
    /\ stmt = 1
    /\ triggers \in [TriggerTables -> BOOLEAN]
    /\ first_run = NotRunBefore
    /\ error = "none"
    /\ rotations = <<>>
    /\ pc = "reset"
    /\ all_rotations = <<>>
    /\ idx = 1
    /\ result_data = <<>>
    /\ df = None
    /\ counts = <<>>
    /\ pie = <<>>
    /\ session = NewSession
    /\ simulation = "not_run"
    /\ NoConcurrentRun

\* The script is started again right after its first run has completed: it
\* runs from line 1 on the tables and triggers the first run left.
RunAgain ==
    /\ stmt = 19
    /\ error = "none"
    /\ ~first_run.done
    /\ first_run' = [done |-> TRUE, db |-> db, triggers |-> triggers]
    /\ db_before' = db
    /\ stmt' = 1
    /\ UNCHANGED <<rotations, pc, all_rotations, idx, result_data, df, counts, pie, error,
                   session, simulation, concurrentVars, db, triggers>>

NextResetTwice ==
    \/ Line1
    \/ Line2
    \/ Line3
    \/ Line4
    \/ Line5
    \/ Line6
    \/ Line7
    \/ Line8
    \/ Line9
    \/ Line10
    \/ Line11
    \/ Line12
    \/ Line13
    \/ Line14
    \/ Line15
    \/ Line16
    \/ Line17
    \/ Line18
    \/ RunAgain

SpecResetTwice == InitResetTwice /\ [][NextResetTwice]_vars

\* ============================================================== properties
\* What the database says, stated without the notebook's queries.

\* The soc_end values of the driving events on the trips of the rotation id.
DrivingSocOfRotation(id) ==
    {e.soc_end : e \in {ev \in UNION {rotations[id].trips[t].events
                                        : t \in 1..Len(rotations[id].trips)}
                          : ev.event_type = "DRIVING"}}

\* The sum of a function over a finite set.
RECURSIVE SumOver(_, _)
SumOver(S, f) ==
    IF S = {} THEN 0
    ELSE LET x == CHOOSE y \in S : TRUE IN f[x] + SumOver(S \ {x}, f)

\* The route distance of every trip of the rotation id, each trip once.
TripDistanceTotal(id) ==
    LET trips == rotations[id].trips
    IN  SumOver(DOMAIN trips, [k \in DOMAIN trips |-> RouteTable[trips[k].route].distance])

\* The orders in which n trips can be stored.
TripOrders(n) == {p \in [1..n -> 1..n] : \A a, b \in 1..n : a # b => p[a] # p[b]}

\* The driving events of the rotation id are missing.
NoDrivingEvent(id) == DrivingSocOfRotation(id) = {}

\* The ids of the rotations of the analysed scenario.
ScenarioRotationIds == {k \in 1..Len(rotations) : rotations[k].scenario_id = SCENARIO_ID}

\* The n-th rotation of the analysed scenario, in table order.
NthScenarioRotation(n) ==
    CHOOSE k \in ScenarioRotationIds :
        Cardinality({j \in ScenarioRotationIds : j < k}) = n - 1

\* The for loop of cell 5 ran to its end.
LoopCompleted ==
    \/ pc \in {"cell6", "cell7", "done"}
    \/ pc = "failed" /\ error \in {"KeyError", "ValueError"}

\* Cell 7 has run (to its end, or to an exception).
Summarized ==
    \/ pc = "done"
    \/ pc = "failed" /\ error \in {"KeyError", "ValueError"}

\* C1: the minimum_soc recorded for a rotation is the smallest soc_end over
\* the driving events of all trips of that rotation, and of no other.
C1_MinimumSocIsRotationMinimum ==
    \A i \in 1..Len(result_data) :
        LET socs == DrivingSocOfRotation(all_rotations[i])
        IN  /\ result_data[i].minimum_soc \in socs
            /\ \A soc \in socs : result_data[i].minimum_soc <= soc

\* A rotation whose two trips hold driving events of different soc_end has
\* its record.
C1_Witness ==
    \E i \in 1..Len(result_data) :
        LET trips == rotations[all_rotations[i]].trips
        IN  /\ Len(trips) = 2
            /\ Cardinality(DrivingSocOfRotation(all_rotations[i])) = 2
            /\ \A t \in 1..2 : \E e \in trips[t].events : e.event_type = "DRIVING"

\* C2: one record per rotation of scenario SCENARIO_ID, in the order the
\* rotations are iterated, none for a rotation of another scenario; when the
\* loop has run to its end there are as many records as such rotations.
C2_OneRecordPerScenarioRotation ==
    /\ Len(result_data) <= Cardinality(ScenarioRotationIds)
    /\ \A i \in 1..Len(result_data) :
           LET id == NthScenarioRotation(i)
           IN  /\ rotations[id].scenario_id = SCENARIO_ID
               /\ result_data[i].minimum_soc \in DrivingSocOfRotation(id)
               /\ \A soc \in DrivingSocOfRotation(id) : result_data[i].minimum_soc <= soc
               /\ result_data[i].total_distance = TripDistanceTotal(id)
    /\ LoopCompleted => Len(result_data) = Cardinality(ScenarioRotationIds)

\* The loop ran to its end over a table that holds a rotation of another
\* scenario (with a driving event) ahead of a rotation of the analysed one.
C2_Witness ==
    /\ LoopCompleted
    /\ Len(result_data) >= 1
    /\ \E k \in 1..Len(rotations) :
           /\ rotations[k].scenario_id # SCENARIO_ID
           /\ DrivingSocOfRotation(k) # {}
           /\ \E j \in ScenarioRotationIds : k < j

\* C3: in every record soc_below_zero is true exactly when minimum_soc < 0;
\* a minimum of exactly 0 gives false.
C3_BelowZeroIffNegative ==
    \A i \in 1..Len(result_data) :
        /\ (result_data[i].soc_below_zero = TRUE) <=> (result_data[i].minimum_soc < 0)
        /\ result_data[i].minimum_soc = 0 => result_data[i].soc_below_zero = FALSE

\* Two records, one with a minimum of exactly 0 and one with a negative one.
C3_Witness ==
    /\ \E i \in 1..Len(result_data) :
           result_data[i].minimum_soc = 0 /\ result_data[i].soc_below_zero = FALSE
    /\ \E i \in 1..Len(result_data) :
           result_data[i].minimum_soc < 0 /\ result_data[i].soc_below_zero = TRUE

\* C4: a rotation whose trips carry no driving event makes the analysis fail
\* with MissingSimulationDataError.
C4_MissingSimulationDataError ==
    (/\ pc = "failed"
     /\ idx <= Len(all_rotations)
     /\ rotations[all_rotations[idx]].trips # <<>>
     /\ NoDrivingEvent(all_rotations[idx]))
        => error = "MissingSimulationDataError"

\* C5: a rotation with zero trips makes the analysis fail with
\* MalformedScheduleError.
C5_MalformedScheduleError ==
    (/\ pc = "failed"
     /\ idx <= Len(all_rotations)
     /\ rotations[all_rotations[idx]].trips = <<>>)
        => error = "MalformedScheduleError"

\* C6: no record is ever emitted for a rotation without driving events: the
\* loop never gets past such a rotation, and every minimum_soc on record is
\* the soc_end of a driving event of its rotation, never a default.
C6_NoRecordWithoutDrivingEvent ==
    /\ \A k \in 1..Len(all_rotations) :
           NoDrivingEvent(all_rotations[k]) => Len(result_data) < k
    /\ \A i \in 1..Len(result_data) :
           \E t \in 1..Len(rotations[all_rotations[i]].trips) :
               \E e \in rotations[all_rotations[i]].trips[t].events :
                   e.event_type = "DRIVING" /\ e.soc_end = result_data[i].minimum_soc

\* The loop met a rotation that has trips but no driving event, after it had
\* recorded another rotation.
C6_Witness ==
    /\ pc = "failed"
    /\ idx <= Len(all_rotations)
    /\ NoDrivingEvent(all_rotations[idx])
    /\ rotations[all_rotations[idx]].trips # <<>>
    /\ Len(result_data) >= 1

\* C7: summarising N >= 1 records, K of them below zero, reports the counts
\* true: K and false: N - K, for every 0 <= K <= N.
C7_CountsOfBothCategories ==
    (Summarized /\ Len(result_data) >= 1)
        => /\ pc = "done"
           /\ \A v \in BOOLEAN :
                  \E k \in 1..Len(counts) :
                      /\ counts[k].value = v
                      /\ counts[k].count
                            = Cardinality({i \in 1..Len(result_data)
                                             : result_data[i].soc_below_zero = v})

\* C8: summarising no record at all reports zero for both categories and
\* raises no error.
C8_EmptyGivesZeroCounts ==
    (Summarized /\ result_data = <<>>)
        => /\ error = "none"
           /\ \A k \in 1..Len(counts) : counts[k].count = 0
           /\ \A k \in 1..Len(pie) : pie[k].size = 0

\* C9: total_distance is the sum of the route distance of every trip of the
\* rotation, each trip counted once, whatever the order of the trips.
C9_TotalDistanceIsTripSum ==
    \A i \in 1..Len(result_data) :
        LET trips == rotations[all_rotations[i]].trips
        IN  /\ result_data[i].total_distance = TripDistanceTotal(all_rotations[i])
            /\ \A p \in TripOrders(Len(trips)) :
                   SumRouteDistance([k \in 1..Len(trips) |-> trips[p[k]]])
                       = result_data[i].total_distance

\* A record of a rotation whose two trips run on different routes and are
\* listed against their departure order.
C9_Witness ==
    \E i \in 1..Len(result_data) :
        LET trips == rotations[all_rotations[i]].trips
        IN  /\ Len(trips) = 2
            /\ trips[1].route # trips[2].route
            /\ trips[1].departure_time > trips[2].departure_time

OtherEventsOfRotation(id) ==
    {ev \in UNION {rotations[id].trips[t].events : t \in 1..Len(rotations[id].trips)}
        : ev.event_type # "DRIVING"}

\* C16: only DRIVING events enter a rotation's minimum: an event of another
\* type on a trip of the rotation, even below every driving event, changes
\* neither minimum_soc nor soc_below_zero.
C16_OnlyDrivingEventsCount ==
    \A i \in 1..Len(result_data) :
        \A ev \in OtherEventsOfRotation(all_rotations[i]) :
            (\A soc \in DrivingSocOfRotation(all_rotations[i]) : ev.soc_end < soc)
                => /\ result_data[i].minimum_soc > ev.soc_end
                   /\ result_data[i].minimum_soc \in DrivingSocOfRotation(all_rotations[i])
                   /\ result_data[i].soc_below_zero
                        = (\E soc \in DrivingSocOfRotation(all_rotations[i]) : soc < 0)

\* A record of a rotation that holds a charging event with a negative soc_end
\* below its only driving event, which is not negative.
C16_Witness ==
    \E i \in 1..Len(result_data) :
        /\ \E ev \in OtherEventsOfRotation(all_rotations[i]) : ev.soc_end < 0
        /\ \A soc \in DrivingSocOfRotation(all_rotations[i]) : soc >= 0
        /\ result_data[i].soc_below_zero = FALSE

\* The number of records with soc_below_zero = v.
RecordsWith(v) == Cardinality({i \in 1..Len(result_data) : result_data[i].soc_below_zero = v})

\* The size of the wedges that carry the label (0 when there is none).
WedgeSize(label) ==
    IF \E k \in 1..Len(pie) : pie[k].label = label
    THEN pie[CHOOSE k \in 1..Len(pie) : pie[k].label = label].size
    ELSE 0

\* C17: in the pie chart the wedge labelled "Success" has the size of the
\* number of records with soc_below_zero = false and the wedge labelled
\* "Failure" that of the number with soc_below_zero = true, for every mix.
C17_WedgeLabelsMatchCategories ==
    (Summarized /\ Len(result_data) >= 1)
        => /\ pc = "done"
           /\ WedgeSize("Success") = RecordsWith(FALSE)
           /\ WedgeSize("Failure") = RecordsWith(TRUE)

\* The loop has met a rotation that it cannot analyse.
LoopFailed == pc = "failed" /\ error \in {"AttributeError", "IndexError"}

\* C18: when a rotation of the scenario fails the analysis, the analysis
\* aborts at that rotation, whichever rotation and whichever condition it is,
\* and neither table nor chart is made from the records collected before it.
C18_FailFast ==
    /\ (\E id \in ScenarioRotationIds : NoDrivingEvent(id))
           => /\ pc \in {"cell5", "loop", "failed"}
              /\ df = None
              /\ counts = <<>>
              /\ pie = <<>>
    /\ LoopFailed
           => /\ NoDrivingEvent(all_rotations[idx])
              /\ \A k \in 1..(idx - 1) : ~NoDrivingEvent(all_rotations[k])
              /\ Len(result_data) = idx - 1
              /\ error = "AttributeError"

\* The loop failed at its second rotation, after it had recorded the first.
C18_Witness ==
    /\ LoopFailed
    /\ idx = 2
    /\ Len(result_data) = 1
    /\ df = None

\* The notebook is at or past the rotation query of cell 5.
AnalysisStarted == pc \in {"loop", "cell6", "cell7", "done", "failed"}

\* C11: the analysis reads the simulation results only after the handshake:
\* the session has committed its pending changes before the simulation starts,
\* and once the simulation has written, the session has committed and expired
\* what it had loaded before the first query, so no summary comes from an
\* entity loaded before the simulation wrote.
C11_ReadsAfterRefreshHandshake ==
    /\ pc = "cell4_simba" => ~session.pending
    /\ simulation # "without_pending_changes"
    /\ pc = "cell5" => /\ simulation = "on_committed_data"
                       /\ ~session.pending
                       /\ ~session.loaded
    /\ AnalysisStarted => /\ simulation = "on_committed_data"
                          /\ session.loaded
                          /\ session.entities = rotations
    /\ \A i \in 1..Len(result_data) :
           /\ all_rotations[i] \in ScenarioRotationIds
           /\ result_data[i].minimum_soc \in DrivingSocOfRotation(all_rotations[i])

\* A summary with a minimum that only the simulation of this run can have written.
C11_Witness ==
    /\ AnalysisStarted
    /\ simulation = "on_committed_data"
    /\ Len(result_data) >= 1
    /\ result_data[1].minimum_soc = -100

\* C13: the session the analysis acquired is released when the analysis has
\* ended, with a chart or with an error.
C13_SessionReleasedAtEnd == pc \in {"done", "failed"} => ~session.open

\* C12: from the rotation query to the end of the summarizing the analysis
\* creates, changes and deletes no row of the externally owned tables, whether
\* it ends with a chart or with an error.
C12_NoWriteDuringAnalysis ==
    [][(pc \in {"cell5", "loop", "cell6", "cell7", "done", "failed"})
           => (rotations' = rotations)]_vars

\* The analysis has ended, with at least one record collected, over a
\* database that also holds trips of another scenario.
C12_Witness ==
    /\ pc \in {"done", "failed"}
    /\ Len(result_data) >= 1
    /\ \E k \in 1..Len(rotations) :
           rotations[k].scenario_id # SCENARIO_ID /\ rotations[k].trips # <<>>

\* What the analysis of one scenario yields when it runs alone.
AnalysisAlone(table, scenario) ==
    LET ids == RotationQuery(table, scenario)
    IN  IF \E k \in 1..Len(ids) : RotationSummary(table, ids[k]) = None
        THEN [error |-> "AttributeError", records |-> <<>>]
        ELSE [error |-> "none",
              records |-> [k \in 1..Len(ids) |-> RotationSummary(table, ids[k])]]

\* C14: two invocations for different scenarios, run concurrently in any
\* interleaving, each yield exactly what they yield alone.
C14_InvocationsIndependent ==
    \A t \in Invocations :
        threads[t].pc \in {"done", "failed"}
            => threads[t].out = AnalysisAlone(rotations, threads[t].scenario)

\* The reset script has run its last statement.
ScriptCompleted == stmt = 19

\* The tables of which the script keeps the rows of one scenario.
ScenarioFilteredTables == ScriptTables \ {"Event", "Vehicle"}

\* C15: after the reset script has run to completion, the Event and Vehicle
\* tables are empty, no Rotation row references a vehicle, and the other
\* tables the script names hold only rows with scenario_id = 1.
C15_OnlyBaseScenarioRemains ==
    ScriptCompleted
        => /\ db["Event"] = {}
           /\ db["Vehicle"] = {}
           /\ \A r \in db["Rotation"] : r.vehicle_id = NULL
           /\ \A table \in ScenarioFilteredTables :
                  \A r \in db[table] : r.scenario_id = KeptScenario

\* The script has completed on a database that held rows of another scenario
\* in every table it names, events and vehicles of both scenarios, and
\* rotations with a vehicle.
C15_Witness ==
    /\ ScriptCompleted
    /\ \A table \in ScriptTables :
           \A sc \in ScenarioIds : \E r \in db_before[table] : r.scenario_id = sc
    /\ \A r \in db_before["Rotation"] : r.vehicle_id # NULL

\* The rows of the kept scenario in a table.
KeptRows(rows) == {r \in rows : r.scenario_id = KeptScenario}

\* C19: the reset script leaves the rows with scenario_id = 1 of the tables
\* it filters by scenario as they were, but for Rotation.vehicle_id, which it
\* sets to NULL, and leaves the tables it does not name unchanged.
C19_BaseScenarioRowsKept ==
    /\ \A table \in ScenarioFilteredTables \ {"Rotation"} :
           KeptRows(db[table]) = KeptRows(db_before[table])
    /\ KeptRows(db["Rotation"]) \in {KeptRows(db_before["Rotation"]),
                                     SetVehicleIdNull(KeptRows(db_before["Rotation"]))}
    /\ ScriptCompleted =>
           KeptRows(db["Rotation"]) = SetVehicleIdNull(KeptRows(db_before["Rotation"]))
    /\ \A table \in UnnamedTables : db[table] = db_before[table]

\* The script has completed on a database with a row of scenario 1 in every
\* table it names, the rotation with a vehicle, and rows of another scenario.
C19_Witness ==
    /\ ScriptCompleted
    /\ \A table \in ScriptTables : KeptRows(db_before[table]) # {}
    /\ \E r \in KeptRows(db_before["Rotation"]) : r.vehicle_id # NULL
    /\ \E r \in db_before["Trip"] : r.scenario_id # KeptScenario
    /\ \A table \in ScenarioFilteredTables : KeptRows(db[table]) # {}

\* Every row that references a row of another table finds it there.
NoDanglingReference ==
    \A fk \in ForeignKeys :
        \A c \in db[fk[1]] :
            (fk[1] = "Rotation" => c.vehicle_id # NULL)
                => \E r \in db[fk[2]] : Refers(fk[1], c, fk[2], r)

SecondRunCompleted == first_run.done /\ stmt = 19

\* C21: the reset script is idempotent: a second run right after the first
\* leaves every table, and whether the triggers of Station and StopTime are
\* enabled, as they were after the first run.
C21_ResetIdempotent ==
    SecondRunCompleted
        => /\ db = first_run.db
           /\ triggers = first_run.triggers

\* The second run has completed on tables in which the first run left rows
\* of scenario 1 in every table it filters by scenario, and has switched the
\* triggers off and on again.
C21_Witness ==
    /\ SecondRunCompleted
    /\ \A table \in ScenarioFilteredTables : KeptRows(first_run.db[table]) # {}
    /\ \A table \in TriggerTables : triggers[table]

====
